---- MODULE Spec2Model ----
(***************************************************************************)
(* StarryPlanner: the request validation and event-extraction pipeline.    *)
(*                                                                         *)
(* Text is modelled as a sequence of code points (integers).  Wall-clock   *)
(* time is modelled in ticks, TicksPerSecond ticks to the second, so that  *)
(* sub-second timestamps (time.time() is a float) are represented.         *)
(***************************************************************************)
EXTENDS Integers, Sequences, FiniteSets, TLC

VARIABLES
    now,                 \* the wall clock, in ticks
    request_timestamps,  \* InputValidator._request_timestamps
    admitted,            \* history: the instants of all admitted requests
    ticks,               \* history: how often the clock has advanced
    calls,               \* history: calls of validate_and_sanitize made
    prompt,              \* the text last handed to validate_and_sanitize
    gate,                \* what that call returned or raised
    threads,             \* the calls of _check_rate_limit in flight, per caller
    pc,                  \* where the request loop or the pipeline run stands
    stages,              \* history: the stages the current run has entered
    ev,                  \* the extracted slots
    warnings,            \* the warnings collected by the current run
    start_dt, end_dt,    \* the zoned datetimes of the current run
    result,              \* what build_event_dict_from_prompt returned
    err,                 \* the error the current run raised
    shown,               \* the message box last shown to the user
    overridden,          \* the user accepted "Are you sure?" for this event
    confirmed,           \* the user accepted the confirmation preview
    written              \* the events handed to add_event_to_google

limiterVars == <<now, request_timestamps, admitted, ticks, calls, prompt, gate, threads>>
runData == <<stages, ev, warnings, start_dt, end_dt, result, err>>
runVars == <<pc, runData>>
uiVars == <<shown, overridden, confirmed, written>>
vars == <<limiterVars, runVars, uiVars>>

(***************************************************************************)
(* Bounds of the model.                                                    *)
(***************************************************************************)
TicksPerSecond == 2
MaxTicks == 3
MaxCalls == 4
\* Requests already admitted, at instant 0, when the observed run starts.
InitialAdmits == 13
\* Prompts handed to the pipeline in one run of the request loop, and clock
\* steps while its input dialog is open.
MaxPrompts == 2
MaxWaits == 1
\* Length of the texts given to _sanitize on its own.
MaxTextLen == 5

(***************************************************************************)
(* Program constants (validation/input_validator.py, class InputLimits).   *)
(***************************************************************************)
MAX_INPUT_LENGTH == 500
RATE_LIMIT_REQUESTS == 15
RATE_LIMIT_WINDOW_SECONDS == 60

WindowTicks == RATE_LIMIT_WINDOW_SECONDS * TicksPerSecond

\* The amounts by which the clock advances between two calls: a fraction of
\* a second, and one tick short of a whole window.
ClockSteps == {1, WindowTicks - 1}

(***************************************************************************)
(* Text helpers.                                                           *)
(***************************************************************************)
Rep(c, n) == [i \in 1..n |-> c]

\* Code points for which str.isspace() holds (what str.strip() removes and
\* what \s matches in a str pattern), restricted to the Latin-1 range.
PyWhitespace == {9, 10, 11, 12, 13, 28, 29, 30, 31, 32, 133, 160}

\* The character class [\x00-\x08\x0b\x0c\x0e-\x1f\x7f].
ControlChars == (0..8) \cup {11, 12} \cup (14..31) \cup {127}

RECURSIVE LStrip(_)
LStrip(s) ==
    IF s = <<>> THEN <<>>
    ELSE IF Head(s) \in PyWhitespace THEN LStrip(Tail(s)) ELSE s

RECURSIVE RStrip(_)
RStrip(s) ==
    IF s = <<>> THEN <<>>
    ELSE IF s[Len(s)] \in PyWhitespace THEN RStrip(SubSeq(s, 1, Len(s) - 1)) ELSE s

Strip(s) == RStrip(LStrip(s))

IsControl(c) == c \in ControlChars

\* Only the null bytes removed.
RemoveControl_nul_only(s) == SelectSeq(s, LAMBDA c : c # 0)

RemoveControl(s) == SelectSeq(s, LAMBDA c : ~IsControl(c))

\* re.sub(r'\s+', ' ', text): every maximal run of whitespace becomes one space.
\* A whitespace character that follows another one is dropped (marked -1), the
\* first of a run becomes a space.
CollapseWhitespace(s) ==
    LET marked == [i \in 1..Len(s) |->
                     IF s[i] \in PyWhitespace
                     THEN (IF i > 1 /\ s[i - 1] \in PyWhitespace THEN -1 ELSE 32)
                     ELSE s[i]]
    IN  SelectSeq(marked, LAMBDA c : c # -1)

\* InputValidator._sanitize
Sanitize(text) == CollapseWhitespace(RemoveControl(Strip(text)))

\* InputValidator._check_length: TRUE when InputTooLongError is raised.
TooLong(text) == Len(text) > MAX_INPUT_LENGTH

(***************************************************************************)
(* InputValidator._check_rate_limit                                        *)
(***************************************************************************)
InWindow(ts, window_start) == ts > window_start

\* Nothing removed.
Prune_none(stamps, window_start) == stamps

Prune(stamps, window_start) ==
    SelectSeq(stamps, LAMBDA ts : InWindow(ts, window_start))

OverLimit_strict(n) == n > RATE_LIMIT_REQUESTS

OverLimit(n) == n >= RATE_LIMIT_REQUESTS

\* The whole seconds since the oldest timestamp, plus one.
WaitSeconds_since_oldest(oldest_in_window, window_start) ==
    ((WindowTicks - (oldest_in_window - window_start)) \div TicksPerSecond) + 1

WaitSeconds_truncated(oldest_in_window, window_start) ==
    (oldest_in_window - window_start) \div TicksPerSecond

\* The difference rounded up instead of truncated.
WaitSeconds_ceiling(oldest_in_window, window_start) ==
    ((oldest_in_window - window_start + TicksPerSecond - 1) \div TicksPerSecond) + 1

\* int(oldest_in_window - window_start) + 1, the difference being in ticks.
WaitSeconds(oldest_in_window, window_start) ==
    ((oldest_in_window - window_start) \div TicksPerSecond) + 1

RejectedStamps_recorded(kept, t) == Append(kept, t)

\* The list a rejected call leaves behind: the pruned one, nothing appended.
RejectedStamps(kept, t) == kept

check_rate_limit(stamps, t) ==
    LET window_start == t - WindowTicks
        kept == Prune(stamps, window_start)
    IN  IF OverLimit(Len(kept))
        THEN [raised |-> TRUE,
              stamps |-> RejectedStamps(kept, t),
              count |-> Len(kept),
              wait_seconds |-> WaitSeconds(kept[1], window_start)]
        ELSE [raised |-> FALSE,
              stamps |-> Append(kept, t),
              count |-> Len(kept),
              wait_seconds |-> 0]

(***************************************************************************)
(* Errors: kind, internal message and user-facing message.  A message is a *)
(* template with its arguments, each argument a sequence of integers (a    *)
(* number n is <<n>>, a text is its code points).                          *)
(***************************************************************************)
Msg(tpl, args) == [tpl |-> tpl, args |-> args]

NoMsg == Msg("", <<>>)

InputTooLongError(text) ==
    [kind |-> "InputTooLong",
     message |-> Msg("Input is {} characters", <<(<<Len(text)>>)>>),
     user_message |-> Msg("Please keep your request under {} characters.",
                          <<(<<MAX_INPUT_LENGTH>>)>>)]

RateLimitExceededError(count, wait_seconds) ==
    [kind |-> "RateLimitExceeded",
     message |-> Msg("Rate limit: {} requests in {}s",
                     <<(<<count>>), (<<RATE_LIMIT_WINDOW_SECONDS>>)>>),
     user_message |-> Msg("Too many requests. Please wait {} seconds.",
                          <<(<<wait_seconds>>)>>)]

NoError == [kind |-> "none", message |-> NoMsg, user_message |-> NoMsg]

GateResult(ok, sanitized, e, stamps) ==
    [ok |-> ok, sanitized |-> sanitized, err |-> e, stamps |-> stamps]

\* The rate limit consulted before the length is checked.
validate_and_sanitize_rate_first(user_input, stamps, t) ==
    LET sanitized == CHOOSE s \in {Sanitize(user_input)} : TRUE
        r == check_rate_limit(stamps, t)
    IN  IF r.raised
        THEN GateResult(FALSE, <<>>, RateLimitExceededError(r.count, r.wait_seconds),
                        r.stamps)
        ELSE IF TooLong(sanitized)
             THEN GateResult(FALSE, <<>>, InputTooLongError(sanitized), r.stamps)
             ELSE GateResult(TRUE, sanitized, NoError, r.stamps)

\* The length measured on the raw input.
validate_and_sanitize_raw_length(user_input, stamps, t) ==
    LET sanitized == CHOOSE s \in {Sanitize(user_input)} : TRUE
    IN  IF TooLong(user_input)
        THEN GateResult(FALSE, <<>>, InputTooLongError(user_input), stamps)
        ELSE LET r == check_rate_limit(stamps, t)
             IN  IF r.raised
                 THEN GateResult(FALSE, <<>>,
                                 RateLimitExceededError(r.count, r.wait_seconds),
                                 r.stamps)
                 ELSE GateResult(TRUE, sanitized, NoError, r.stamps)

(***************************************************************************)
(* InputValidator.validate_and_sanitize: sanitize, check the length, then  *)
(* check the rate limit.  The result holds the returned text or the error  *)
(* raised, and the timestamps list the call leaves behind.                 *)
(***************************************************************************)
validate_and_sanitize(user_input, stamps, t) ==
    LET sanitized == CHOOSE s \in {Sanitize(user_input)} : TRUE
    IN  IF TooLong(sanitized)
        THEN GateResult(FALSE, <<>>, InputTooLongError(sanitized), stamps)
        ELSE LET r == check_rate_limit(stamps, t)
             IN  IF r.raised
                 THEN GateResult(FALSE, <<>>,
                                 RateLimitExceededError(r.count, r.wait_seconds),
                                 r.stamps)
                 ELSE GateResult(TRUE, sanitized, NoError, r.stamps)

(***************************************************************************)
(* Extracted slots: the field map json.loads returns.  A field is absent,  *)
(* null, or a text.                                                        *)
(***************************************************************************)
Absent == [k |-> "absent", s |-> <<>>]
Null == [k |-> "null", s |-> <<>>]
Str(text) == [k |-> "str", s |-> text]

RequiredFields == <<"title", "date", "start", "end", "tz">>
OptionalFields == {"location", "notes", "recurrence"}
SlotFields == {RequiredFields[i] : i \in DOMAIN RequiredFields} \cup OptionalFields

\* Python truthiness of slots.get(f): a non-empty text.
Truthy(v) == v.k = "str" /\ v.s # <<>>

(***************************************************************************)
(* Texts of dates and times.                                               *)
(***************************************************************************)
Digit(n) == 48 + n
IsDigit(c) == c \in 48..57

DateText(y, m, d) ==
    <<Digit(y \div 1000), Digit((y \div 100) % 10), Digit((y \div 10) % 10), Digit(y % 10),
      45, Digit(m \div 10), Digit(m % 10), 45, Digit(d \div 10), Digit(d % 10)>>

TimeText(h, mi) == <<Digit(h \div 10), Digit(h % 10), 58, Digit(mi \div 10), Digit(mi % 10)>>

Num2(s, i) == (s[i] - 48) * 10 + (s[i + 1] - 48)
Num4(s, i) == Num2(s, i) * 100 + Num2(s, i + 2)

\* A pattern ending in $ also matches just before one final newline.
EndsAt(s, n) == Len(s) = n \/ (Len(s) = n + 1 /\ s[n + 1] = 10)

\* re.match(r'^\d{4}-\d{2}-\d{2}$', date_str)
MatchesDatePattern(s) ==
    /\ EndsAt(s, 10)
    /\ \A i \in {1, 2, 3, 4, 6, 7, 9, 10} : IsDigit(s[i])
    /\ s[5] = 45 /\ s[8] = 45

\* re.match(r'^\d{2}:\d{2}$', time_str)
MatchesTimePattern(s) ==
    /\ EndsAt(s, 5)
    /\ \A i \in {1, 2, 4, 5} : IsDigit(s[i])
    /\ s[3] = 58

IsLeap(y) == (y % 4 = 0 /\ y % 100 # 0) \/ y % 400 = 0

DaysInMonth(y, m) ==
    IF m = 2 THEN (IF IsLeap(y) THEN 29 ELSE 28)
    ELSE IF m \in {4, 6, 9, 11} THEN 30 ELSE 31

\* datetime.strptime(date_str, '%Y-%m-%d') of a text that matches the date
\* pattern: the whole text must be consumed and the date must exist.
StrptimeOK(s) ==
    /\ Len(s) = 10
    /\ Num4(s, 1) >= 1
    /\ Num2(s, 6) \in 1..12
    /\ Num2(s, 9) \in 1..DaysInMonth(Num4(s, 1), Num2(s, 6))

\* hour, minute = map(int, time_str.split(':')) and the range check, of a text
\* that matches the time pattern (int() ignores the surrounding whitespace).
HourMinuteOK(s) == Num2(s, 1) \in 0..23 /\ Num2(s, 4) \in 0..59

\* The zones pytz.timezone recognizes, among those the model draws.
TZ_Toronto == <<65, 109, 101, 114, 105, 99, 97, 47, 84, 111, 114, 111, 110, 116, 111>>
TZ_UTC == <<85, 84, 67>>
TZ_Mars == <<77, 97, 114, 115, 47, 78, 111, 99, 116, 105, 115>>
KnownZones == {TZ_Toronto, TZ_UTC}

(***************************************************************************)
(* EventValidator: the hard checks.  Each yields the error it raises, or   *)
(* NoError.                                                                *)
(***************************************************************************)
InvalidEventDataError(message, user_message) ==
    [kind |-> "InvalidEventData", message |-> message, user_message |-> user_message]

InvalidTimezoneError(message, user_message) ==
    [kind |-> "InvalidTimezone", message |-> message, user_message |-> user_message]

\* The positions, in RequiredFields, of the fields that are missing or empty.
Missing(slots) ==
    SelectSeq([i \in DOMAIN RequiredFields |-> i],
              LAMBDA i : ~Truthy(slots[RequiredFields[i]]))

\* EventValidator._check_required_fields.  The message lists the missing
\* fields, given here by their positions in RequiredFields.
check_required_fields(slots) ==
    IF Missing(slots) # <<>>
    THEN InvalidEventDataError(
             Msg("Missing fields: {}", <<Missing(slots)>>),
             Msg("I couldn't understand all the details. Please include the event title, date, and times.", <<>>))
    ELSE NoError

\* EventValidator._check_date_format
check_date_format(date_str) ==
    IF ~MatchesDatePattern(date_str)
    THEN InvalidEventDataError(
             Msg("Invalid date format: {}", <<date_str>>),
             Msg("I couldn't understand the date. Please try again with a clearer date.", <<>>))
    ELSE IF ~StrptimeOK(date_str)
    THEN InvalidEventDataError(
             Msg("Invalid date: {}", <<date_str>>),
             Msg("That date doesn't exist. Please check the date and try again.", <<>>))
    ELSE NoError

\* EventValidator._check_time_format
check_time_format(time_str, field_name) ==
    IF ~MatchesTimePattern(time_str)
    THEN InvalidEventDataError(
             Msg("Invalid " \o field_name \o " time format: {}", <<time_str>>),
             Msg("I couldn't understand the " \o field_name \o " time. Please try again.", <<>>))
    ELSE IF ~HourMinuteOK(time_str)
    THEN InvalidEventDataError(
             Msg("Invalid " \o field_name \o " time: {}", <<time_str>>),
             Msg("The " \o field_name \o " time doesn't look right. Please use a valid time.", <<>>))
    ELSE NoError

\* EventValidator._check_timezone
check_timezone(tz_str) ==
    IF tz_str \notin KnownZones
    THEN InvalidTimezoneError(
             Msg("Unknown timezone: {}", <<tz_str>>),
             Msg("Invalid timezone detected. Please try again.", <<>>))
    ELSE NoError

(***************************************************************************)
(* EventValidator: the soft checks.                                        *)
(***************************************************************************)
MAX_TITLE_LENGTH == 100
MAX_FUTURE_DAYS == 730
MAX_DURATION_DAYS == 7

\* EventValidator._check_title_length: the warnings it contributes.
\* The warning given from the recommended maximum on.
check_title_length_inclusive(title) ==
    IF Len(title) >= MAX_TITLE_LENGTH
    THEN << Msg("Title is {} characters (recommended max: {})",
                <<(<<Len(title)>>), (<<MAX_TITLE_LENGTH>>)>>) >>
    ELSE <<>>

\* EventValidator._check_title_length, as the list validate_event appends to.
check_title_length(title) ==
    IF Len(title) > MAX_TITLE_LENGTH
    THEN << Msg("Title is {} characters (recommended max: {})",
                <<(<<Len(title)>>), (<<MAX_TITLE_LENGTH>>)>>) >>
    ELSE <<>>

\* The first of the errors, in the order given, that is an error.
RECURSIVE FirstError(_)
FirstError(errs) ==
    IF errs = <<>> THEN NoError
    ELSE IF Head(errs).kind # "none" THEN Head(errs) ELSE FirstError(Tail(errs))

\* The timezone looked up before the date and the times are checked.
HardChecks_zone_first(slots) ==
    LET e1 == check_required_fields(slots)
    IN  IF e1.kind # "none" THEN e1 ELSE
        LET e5 == check_timezone(slots["tz"].s)
        IN  IF e5.kind # "none" THEN e5 ELSE
            LET e2 == check_date_format(slots["date"].s)
            IN  IF e2.kind # "none" THEN e2 ELSE
                LET e3 == check_time_format(slots["start"].s, "start")
                IN  IF e3.kind # "none" THEN e3
                    ELSE check_time_format(slots["end"].s, "end")

\* The hard checks of validate_event in the order the code runs them.  A check
\* is evaluated only when those before it have passed.
HardChecks(slots) ==
    LET e1 == check_required_fields(slots)
    IN  IF e1.kind # "none" THEN e1 ELSE
        LET e2 == check_date_format(slots["date"].s)
        IN  IF e2.kind # "none" THEN e2 ELSE
            LET e3 == check_time_format(slots["start"].s, "start")
            IN  IF e3.kind # "none" THEN e3 ELSE
                LET e4 == check_time_format(slots["end"].s, "end")
                IN  IF e4.kind # "none" THEN e4 ELSE check_timezone(slots["tz"].s)

\* EventValidator.validate_event: the error raised, or the slots (unchanged)
\* and the warnings returned.
validate_event(slots) ==
    LET e == HardChecks(slots)
    IN  IF e.kind # "none"
        THEN [err |-> e, slots |-> slots, warnings |-> <<>>]
        ELSE [err |-> NoError, slots |-> slots,
              warnings |-> check_title_length(slots["title"].s)]

(***************************************************************************)
(* Zoned datetimes.  A datetime is its wall-clock reading in minutes since *)
(* 1970-01-01T00:00 and its UTC offset in minutes; the instant it denotes  *)
(* is the reading less the offset.                                         *)
(***************************************************************************)
\* Days from 1970-01-01 to the civil date y-m-d (proleptic Gregorian).
DaysFromCivil(y, m, d) ==
    LET yy == IF m <= 2 THEN y - 1 ELSE y
        era == yy \div 400
        yoe == yy - era * 400
        mp == IF m > 2 THEN m - 3 ELSE m + 9
        doy == (153 * mp + 2) \div 5 + d - 1
        doe == yoe * 365 + yoe \div 4 - yoe \div 100 + doy
    IN  era * 146097 + doe - 719468

\* 0 is Sunday; 1970-01-01 was a Thursday.
Weekday(days) == (days + 4) % 7

MinutesPerDay == 24 * 60

\* datetime.fromisoformat(f"{date}T{time}"): accepted texts, and the reading.
FromIsoFormatOK(date_str, time_str) ==
    /\ Len(date_str) = 10 /\ MatchesDatePattern(date_str) /\ StrptimeOK(date_str)
    /\ Len(time_str) = 5 /\ MatchesTimePattern(time_str) /\ HourMinuteOK(time_str)

FromIsoFormat(date_str, time_str) ==
    DaysFromCivil(Num4(date_str, 1), Num2(date_str, 6), Num2(date_str, 9)) * MinutesPerDay
        + Num2(time_str, 1) * 60 + Num2(time_str, 4)

\* The day in first..first+6 of month m of year y that is a Sunday.
SundayFrom(y, m, first) ==
    CHOOSE d \in first..(first + 6) : Weekday(DaysFromCivil(y, m, d)) = 0

\* tz.localize(naive) of pytz with is_dst=False: the UTC offset it attaches.
\* America/Toronto (rules in force since 2007): daylight time from the second
\* Sunday of March to the first Sunday of November; a reading in the skipped
\* hour or in the repeated hour gets standard time.
UtcOffset(tz_str, naive) ==
    IF tz_str = TZ_Toronto
    THEN LET y == CHOOSE yy \in 1970..2100 :
                     /\ DaysFromCivil(yy, 1, 1) * MinutesPerDay <= naive
                     /\ naive < DaysFromCivil(yy + 1, 1, 1) * MinutesPerDay
             spring == DaysFromCivil(y, 3, SundayFrom(y, 3, 8)) * MinutesPerDay + 3 * 60
             fall == DaysFromCivil(y, 11, SundayFrom(y, 11, 1)) * MinutesPerDay + 60
         IN  IF spring <= naive /\ naive < fall THEN -240 ELSE -300
    ELSE 0

Localize(tz_str, naive) == [naive |-> naive, offset |-> UtcOffset(tz_str, naive)]

Instant(dt) == dt.naive - dt.offset

NoDatetime == [naive |-> 0, offset |-> 0]

\* if end_dt < start_dt: start_dt, end_dt = end_dt, start_dt
OrderTimes_unswapped(s_dt, e_dt) == <<s_dt, e_dt>>

\* The two exchanged whatever their order.
OrderTimes_always(s_dt, e_dt) == <<e_dt, s_dt>>

OrderTimes(s_dt, e_dt) ==
    IF Instant(e_dt) < Instant(s_dt) THEN <<e_dt, s_dt>>
    ELSE <<s_dt, e_dt>>

\* Errors that are not ValidationErrors carry no user_message.
GenericError(kind, message) == [kind |-> kind, message |-> message, user_message |-> NoMsg]

IsValidationError(e) ==
    e.kind \in {"InputTooLong", "RateLimitExceeded", "InvalidEventData", "InvalidTimezone"}

\* Steps 5 and 6 of build_event_dict_from_prompt: the zone, the two zoned
\* datetimes, and the swap.
parse_times(slots) ==
    LET date_str == slots["date"].s
        start_str == slots["start"].s
        end_str == slots["end"].s
        tz_str == slots["tz"].s
    IN  IF tz_str \notin KnownZones
        THEN [err |-> GenericError("UnknownTimeZoneError", Msg("{}", <<tz_str>>)),
              start |-> NoDatetime, end |-> NoDatetime]
        ELSE IF ~FromIsoFormatOK(date_str, start_str)
        THEN [err |-> GenericError("ValueError",
                          Msg("Invalid isoformat string: {}", <<date_str \o <<84>> \o start_str>>)),
              start |-> NoDatetime, end |-> NoDatetime]
        ELSE IF ~FromIsoFormatOK(date_str, end_str)
        THEN [err |-> GenericError("ValueError",
                          Msg("Invalid isoformat string: {}", <<date_str \o <<84>> \o end_str>>)),
              start |-> NoDatetime, end |-> NoDatetime]
        ELSE LET ordered == OrderTimes(Localize(tz_str, FromIsoFormat(date_str, start_str)),
                                       Localize(tz_str, FromIsoFormat(date_str, end_str)))
             IN  [err |-> NoError, start |-> ordered[1], end |-> ordered[2]]

\* The session starts at 2025-06-01T12:00Z; datetime.now() in whole minutes.
SessionStart == DaysFromCivil(2025, 6, 1) * MinutesPerDay + 12 * 60
NowMinutes(t) == SessionStart + t \div (60 * TicksPerSecond)

\* The duration in minutes compared with the limit in days.
check_time_constraints_minutes(s_dt, e_dt, t) ==
    LET max_future == NowMinutes(t) + MAX_FUTURE_DAYS * MinutesPerDay
        duration == Instant(e_dt) - Instant(s_dt)
        far == IF Instant(s_dt) > max_future
               THEN << Msg("Event is more than {} years in the future",
                           <<(<<MAX_FUTURE_DAYS \div 365>>)>>) >>
               ELSE <<>>
        long == IF duration > MAX_DURATION_DAYS
                THEN << Msg("Event duration is {} days", <<(<<duration \div MinutesPerDay>>)>>) >>
                ELSE <<>>
    IN  far \o long

\* The duration warning given from MAX_DURATION_DAYS on.
check_time_constraints_inclusive(s_dt, e_dt, t) ==
    LET max_future == NowMinutes(t) + MAX_FUTURE_DAYS * MinutesPerDay
        duration == Instant(e_dt) - Instant(s_dt)
        far == IF Instant(s_dt) > max_future
               THEN << Msg("Event is more than {} years in the future",
                           <<(<<MAX_FUTURE_DAYS \div 365>>)>>) >>
               ELSE <<>>
        long == IF duration >= MAX_DURATION_DAYS * MinutesPerDay
                THEN << Msg("Event duration is {} days", <<(<<duration \div MinutesPerDay>>)>>) >>
                ELSE <<>>
    IN  far \o long

\* EventValidator.check_time_constraints
check_time_constraints(s_dt, e_dt, t) ==
    LET max_future == NowMinutes(t) + MAX_FUTURE_DAYS * MinutesPerDay
        duration == Instant(e_dt) - Instant(s_dt)
        far == IF Instant(s_dt) > max_future
               THEN << Msg("Event is more than {} years in the future",
                           <<(<<MAX_FUTURE_DAYS \div 365>>)>>) >>
               ELSE <<>>
        long == IF duration > MAX_DURATION_DAYS * MinutesPerDay
                THEN << Msg("Event duration is {} days", <<(<<duration \div MinutesPerDay>>)>>) >>
                ELSE <<>>
    IN  far \o long

DefaultDescription ==
    <<65, 100, 100, 101, 100, 32, 118, 105, 97, 32, 65, 73, 32, 83, 99, 104, 101, 100,
      117, 108, 101, 114>>
LocationPrefix == <<10, 76, 111, 99, 97, 116, 105, 111, 110, 58, 32>>
RRulePrefix == <<82, 82, 85, 76, 69, 58>>

\* str.upper on the ASCII letters.
Upper(text) == [i \in DOMAIN text |-> IF text[i] \in 97..122 THEN text[i] - 32 ELSE text[i]]

StartsWith(text, prefix) ==
    Len(text) >= Len(prefix) /\ SubSeq(text, 1, Len(prefix)) = prefix

\* ev.get("notes", "Added via AI Scheduler"): the default only when the key is absent.
GetNotes(slots) ==
    IF slots["notes"].k = "absent" THEN Str(DefaultDescription) ELSE slots["notes"]

\* rrule, prefixed unless it starts with RRULE: in any letter case.
EnsurePrefix(rrule) ==
    IF StartsWith(Upper(rrule), RRulePrefix) THEN rrule ELSE RRulePrefix \o rrule

NoEvent ==
    [summary |-> <<>>, description |-> Null, start |-> NoDatetime, end |-> NoDatetime,
     recurrence |-> <<>>]

\* Steps 8 and 9 of build_event_dict_from_prompt: the event dict (recurrence
\* <<>> standing for no recurrence key), or the error raised.
build_event(slots, s_dt, e_dt) ==
    LET notes == GetNotes(slots)
        base == [summary |-> slots["title"].s, description |-> notes,
                 start |-> s_dt, end |-> e_dt, recurrence |-> <<>>]
    IN  IF Truthy(slots["location"]) /\ notes.k # "str"
        THEN [err |-> GenericError("TypeError",
                          Msg("unsupported operand type(s) for +=: 'NoneType' and 'str'", <<>>)),
              event |-> NoEvent]
        ELSE LET described ==
                     IF Truthy(slots["location"])
                     THEN [base EXCEPT !.description =
                               Str(notes.s \o LocationPrefix \o slots["location"].s)]
                     ELSE base
             IN  [err |-> NoError,
                  event |-> IF Truthy(slots["recurrence"])
                            THEN [described EXCEPT !.recurrence =
                                      <<EnsurePrefix(slots["recurrence"].s)>>]
                            ELSE described]

\* sanity_check_event: disabled, always returns None (no warning).
sanity_check_event_enabled(slots) ==
    << Msg("{}", <<(<<"Event details look inconsistent">>)>>) >>

sanity_check_event(slots) == <<>>

\* The timestamps list after n further calls of _check_rate_limit at instant t.
RECURSIVE AdmitTimes(_, _, _)
AdmitTimes(stamps, t, n) ==
    IF n = 0 THEN stamps
    ELSE AdmitTimes(check_rate_limit(stamps, t).stamps, t, n - 1)

\* Whether n further calls of _check_rate_limit at instant t are all admitted.
RECURSIVE AllAdmitted(_, _, _)
AllAdmitted(stamps, t, n) ==
    \/ n = 0
    \/ /\ ~check_rate_limit(stamps, t).raised
       /\ AllAdmitted(check_rate_limit(stamps, t).stamps, t, n - 1)

(***************************************************************************)
(* The limiter on its own: calls of validate_and_sanitize by one caller at *)
(* a time, and the clock advancing between calls.  The run starts on a     *)
(* fresh instance, or on one that has admitted InitialAdmits requests at   *)
(* instant 0.                                                              *)
(***************************************************************************)
LongText == Rep(97, MAX_INPUT_LENGTH + 1)

\* "hi", a text of exactly the maximum length, a text one longer, and a raw
\* text longer than the maximum whose sanitized form is within it.
LimiterPrompts ==
    { <<104, 105>>,
      Rep(97, MAX_INPUT_LENGTH),
      LongText,
      <<0, 32>> \o Rep(97, MAX_INPUT_LENGTH - 1) \o <<10, 10>> }

\* The callers that may be inside _check_rate_limit at the same time.
ThreadIds == {1, 2}

\* A caller outside _check_rate_limit: no clock value read, no list built.
IdleThread == [at |-> "idle", now |-> 0, kept |-> <<>>, raised |-> FALSE]

\* No call in flight, the callers taking turns.
NoThreads == [serialized |-> TRUE, run |-> [i \in ThreadIds |-> IdleThread]]

NoGate == [called |-> FALSE, ok |-> FALSE, sanitized |-> <<>>, err |-> NoError]

NoSlots == [f \in SlotFields |-> Absent]
NoResult == [ok |-> FALSE, event |-> NoEvent, warnings |-> <<>>]
NoShown == [title |-> "", text |-> NoMsg]

\* No pipeline run has started and nothing has been shown or written.
IdleRun ==
    /\ stages = <<>>
    /\ ev = NoSlots
    /\ warnings = <<>>
    /\ start_dt = NoDatetime
    /\ end_dt = NoDatetime
    /\ result = NoResult
    /\ err = NoError
    /\ shown = NoShown
    /\ overridden = FALSE
    /\ confirmed = FALSE
    /\ written = <<>>

\* The shared instance after n requests admitted at instant 0.
InitInstance(n) ==
    /\ now = 0
    /\ request_timestamps = AdmitTimes(<<>>, 0, n)
    /\ admitted = AdmitTimes(<<>>, 0, n)
    /\ ticks = 0
    /\ calls = 0
    /\ prompt = <<>>
    /\ gate = NoGate
    /\ threads = NoThreads

InitLimiter == (\E n \in {0, InitialAdmits} : InitInstance(n)) /\ pc = "Limiter" /\ IdleRun

Call(p) ==
    \E res \in {validate_and_sanitize(p, request_timestamps, now)} :
        /\ pc = "Limiter"
        /\ calls < MaxCalls
        /\ calls' = calls + 1
        /\ prompt' = p
        /\ request_timestamps' = res.stamps
        /\ admitted' = IF res.ok THEN Append(admitted, now) ELSE admitted
        /\ gate' = [called |-> TRUE, ok |-> res.ok, sanitized |-> res.sanitized,
                    err |-> res.err]
        /\ UNCHANGED <<now, ticks, threads, runVars, uiVars>>

\* The clock advances while no call is executing: between the calls of the
\* limiter on its own, and while the input dialog of the request loop is open;
\* with several callers it advances between any two of their steps.
Tick(d) ==
    /\ pc \in {"Limiter", "Gate", "Threads"}
    /\ ticks < (IF pc = "Limiter" THEN MaxTicks ELSE MaxWaits)
    /\ now' = now + d
    /\ ticks' = ticks + 1
    /\ UNCHANGED <<request_timestamps, admitted, calls, prompt, gate, threads, runVars,
                   uiVars>>

NextLimiter ==
    \/ \E p \in LimiterPrompts : Call(p)
    \/ \E d \in ClockSteps : Tick(d)

SpecLimiter == InitLimiter /\ [][NextLimiter]_vars

(***************************************************************************)
(* _check_rate_limit called by two callers on the shared instance, one     *)
(* step per statement: the clock is read, the pruned list is built, it is  *)
(* assigned to _request_timestamps, the length of _request_timestamps is   *)
(* compared with the limit, and the clock value is appended.  The callers  *)
(* either take turns (one call in flight at a time) or do not.             *)
(***************************************************************************)
InitThreads ==
    /\ \E n \in {0, RATE_LIMIT_REQUESTS - 1}, serialized \in BOOLEAN :
          /\ request_timestamps = AdmitTimes(<<>>, 0, n)
          /\ admitted = AdmitTimes(<<>>, 0, n)
          /\ threads = [NoThreads EXCEPT !.serialized = serialized]
    /\ now = 0
    /\ ticks = 0
    /\ calls = 0
    /\ prompt = <<>>
    /\ gate = NoGate
    /\ pc = "Threads"
    /\ IdleRun

At(i, place) == pc = "Threads" /\ threads.run[i].at = place

Moved(i, r) == [threads EXCEPT !.run[i] = r]

\* Every caller enters at once.
MayBegin_unguarded(i) == TRUE

\* Callers that take turns enter only while no other call is in flight.
MayBegin(i) ==
    threads.serialized => \A j \in ThreadIds \ {i} : threads.run[j].at = "idle"

\* now = time.time(); window_start = now - RATE_LIMIT_WINDOW_SECONDS
ThreadBegin(i) ==
    /\ At(i, "idle")
    /\ MayBegin(i)
    /\ calls < MaxCalls
    /\ calls' = calls + 1
    /\ threads' = Moved(i, [at |-> "filter", now |-> now, kept |-> <<>>, raised |-> FALSE])
    /\ UNCHANGED <<now, request_timestamps, admitted, ticks, prompt, gate, runVars, uiVars>>

\* [ts for ts in self._request_timestamps if ts > window_start]
ThreadFilter(i) ==
    /\ At(i, "filter")
    /\ threads' = Moved(i, [threads.run[i] EXCEPT
                                !.at = "store",
                                !.kept = Prune(request_timestamps,
                                               threads.run[i].now - WindowTicks)])
    /\ UNCHANGED <<now, request_timestamps, admitted, ticks, calls, prompt, gate, runVars,
                   uiVars>>

\* self._request_timestamps = (the list built)
ThreadStore(i) ==
    /\ At(i, "store")
    /\ request_timestamps' = threads.run[i].kept
    /\ threads' = Moved(i, [threads.run[i] EXCEPT !.at = "check"])
    /\ UNCHANGED <<now, admitted, ticks, calls, prompt, gate, runVars, uiVars>>

\* if len(self._request_timestamps) >= RATE_LIMIT_REQUESTS: raise
ThreadCheck(i) ==
    /\ At(i, "check")
    /\ threads' = IF OverLimit(Len(request_timestamps))
                  THEN Moved(i, [threads.run[i] EXCEPT !.at = "idle", !.raised = TRUE])
                  ELSE Moved(i, [threads.run[i] EXCEPT !.at = "append"])
    /\ UNCHANGED <<now, request_timestamps, admitted, ticks, calls, prompt, gate, runVars,
                   uiVars>>

\* self._request_timestamps.append(now)
ThreadAppend(i) ==
    /\ At(i, "append")
    /\ request_timestamps' = Append(request_timestamps, threads.run[i].now)
    /\ admitted' = Append(admitted, threads.run[i].now)
    /\ threads' = Moved(i, [threads.run[i] EXCEPT !.at = "idle"])
    /\ UNCHANGED <<now, ticks, calls, prompt, gate, runVars, uiVars>>

NextThreads ==
    \/ \E i \in ThreadIds : ThreadBegin(i)
    \/ \E i \in ThreadIds : ThreadFilter(i)
    \/ \E i \in ThreadIds : ThreadStore(i)
    \/ \E i \in ThreadIds : ThreadCheck(i)
    \/ \E i \in ThreadIds : ThreadAppend(i)
    \/ \E d \in ClockSteps : Tick(d)

SpecThreads == InitThreads /\ [][NextThreads]_vars

(***************************************************************************)
(* _sanitize on its own, applied to every text of at most MaxTextLen       *)
(* characters over a small alphabet: NUL, TAB, FS (a control character     *)
(* that is also whitespace), space, "a" and DEL.                           *)
(***************************************************************************)
SanitizeAlphabet == {0, 9, 28, 32, 97, 127}

SanitizeInputs == UNION {[1..k -> SanitizeAlphabet] : k \in 0..MaxTextLen}

InitSanitize ==
    /\ InitInstance(0)
    /\ pc = "Sanitizing"
    /\ IdleRun

\* text = self._sanitize(text), for a text the caller passes.
SanitizeStep ==
    /\ pc = "Sanitizing"
    /\ \E text \in SanitizeInputs :
          /\ prompt' = text
          /\ gate' = [called |-> TRUE, ok |-> TRUE, sanitized |-> Sanitize(text),
                      err |-> NoError]
    /\ stages' = Append(stages, "Sanitizing")
    /\ pc' = "Sanitized"
    /\ UNCHANGED <<now, request_timestamps, admitted, ticks, calls, threads, ev, warnings,
                   start_dt, end_dt, result, err, uiVars>>

SpecSanitize == InitSanitize /\ [][SanitizeStep]_vars

(***************************************************************************)
(* validate_event on its own, applied to slot maps drawn from a bounded    *)
(* set.                                                                    *)
(***************************************************************************)
TitleLunch == <<76, 117, 110, 99, 104, 32, 119, 105, 116, 104, 32, 65, 108, 105, 99, 101>>
Tomorrow == <<116, 111, 109, 111, 114, 114, 111, 119>>

SlotMap(title, date, start, end, tz, location, notes, recurrence) ==
    [f \in SlotFields |->
        CASE f = "title" -> title
          [] f = "date" -> date
          [] f = "start" -> start
          [] f = "end" -> end
          [] f = "tz" -> tz
          [] f = "location" -> location
          [] f = "notes" -> notes
          [] f = "recurrence" -> recurrence]

ValidatorTitles ==
    {Absent, Null, Str(<<>>), Str(TitleLunch), Str(Rep(97, MAX_TITLE_LENGTH)),
     Str(Rep(97, MAX_TITLE_LENGTH + 1))}
ValidatorDates ==
    {Absent, Str(DateText(2025, 6, 2)), Str(DateText(2024, 2, 29)), Str(DateText(2023, 2, 29)),
     Str(DateText(2024, 13, 40)), Str(DateText(0, 1, 1)), Str(DateText(2025, 6, 2) \o <<10>>),
     Str(<<50, 48, 50, 53, 45, 54, 45, 50>>), Str(Tomorrow)}
ValidatorStarts ==
    {Str(TimeText(13, 0)), Str(TimeText(25, 0)), Str(TimeText(12, 60)), Str(<<57, 58, 48, 48>>),
     Str(TimeText(13, 0) \o <<10>>), Str(<<>>)}
ValidatorEnds ==
    {Str(TimeText(14, 0)), Str(TimeText(24, 0)), Str(<<49, 52, 48, 48>>), Null}
ValidatorZones == {Str(TZ_Toronto), Str(TZ_UTC), Str(TZ_Mars), Null}

ValidatorInputs ==
    {SlotMap(t, d, st, en, tz, Absent, Absent, Absent) :
        t \in ValidatorTitles, d \in ValidatorDates, st \in ValidatorStarts,
        en \in ValidatorEnds, tz \in ValidatorZones}

\* The stage a run is in after a step that raised e, or did not.
StageOutcome_swallowed(e, next) == next

StageOutcome(e, next) == IF e.kind # "none" THEN "Failed" ELSE next

InitValidate ==
    /\ InitInstance(0)
    /\ pc = "StructureValidating"
    /\ \E slots \in ValidatorInputs :
          /\ ev = slots
          /\ stages = <<>> /\ warnings = <<>> /\ start_dt = NoDatetime /\ end_dt = NoDatetime
          /\ result = NoResult /\ err = NoError /\ shown = NoShown
          /\ overridden = FALSE /\ confirmed = FALSE /\ written = <<>>

\* Step 4 of build_event_dict_from_prompt: validate_event.
StructureValidate ==
    \E v \in {validate_event(ev)} :
        /\ pc = "StructureValidating"
        /\ stages' = Append(stages, "StructureValidating")
        /\ ev' = v.slots
        /\ warnings' = v.warnings
        /\ err' = v.err
        /\ pc' = StageOutcome(v.err, "Assembling")
        /\ UNCHANGED <<limiterVars, start_dt, end_dt, result, uiVars>>

SpecValidate == InitValidate /\ [][StructureValidate]_vars

(***************************************************************************)
(* check_time_constraints on its own, applied to zoned datetimes around    *)
(* its two thresholds.  Times are minutes after the start of the session.  *)
(***************************************************************************)
HorizonMinutes == MAX_FUTURE_DAYS * MinutesPerDay
WeekMinutes == MAX_DURATION_DAYS * MinutesPerDay

\* Wall-clock starts: tomorrow, the Wednesday before the clocks go back, and
\* the minutes around the horizon as read in UTC and in Toronto.
ConstraintStarts ==
    {SessionStart + d :
        d \in {MinutesPerDay, 150 * MinutesPerDay,
               HorizonMinutes - 241, HorizonMinutes - 240, HorizonMinutes - 239,
               HorizonMinutes - 1, HorizonMinutes, HorizonMinutes + 1,
               HorizonMinutes + MinutesPerDay}}

\* Wall-clock time from start to end: negative, none, an hour, and the
\* minutes around a week.
ConstraintSpans ==
    {-60, 0, 60, WeekMinutes - 1, WeekMinutes, WeekMinutes + 1,
     WeekMinutes + MinutesPerDay, 30 * MinutesPerDay}

InitConstraints ==
    /\ InitInstance(0)
    /\ pc = "ConstraintChecking"
    /\ \E tz \in {TZ_UTC, TZ_Toronto}, s \in ConstraintStarts, span \in ConstraintSpans :
          /\ start_dt = Localize(tz, s)
          /\ end_dt = Localize(tz, s + span)
    /\ stages = <<>> /\ ev = NoSlots /\ warnings = <<>>
    /\ result = NoResult /\ err = NoError /\ shown = NoShown
    /\ overridden = FALSE /\ confirmed = FALSE /\ written = <<>>

(***************************************************************************)
(* The request loop (MainWindow.on_ai_assistant) around the pipeline       *)
(* (build_event_dict_from_prompt), one step per stage of the pipeline.     *)
(***************************************************************************)
PromptLunch ==
    <<76, 117, 110, 99, 104, 32, 119, 105, 116, 104, 32, 65, 108, 105, 99, 101, 32, 116,
      111, 109, 111, 114, 114, 111, 119, 32, 49, 45, 50, 112, 109>>

\* A request, an over-long text, a blank text and a text of one NUL.
AppPrompts == {PromptLunch, LongText, <<32, 32>>, <<0>>}

Campus == <<67, 97, 109, 112, 117, 115>>
BringID == <<66, 114, 105, 110, 103, 32, 73, 68>>
FreqWeekly ==
    <<70, 82, 69, 81, 61, 87, 69, 69, 75, 76, 89, 59, 66, 89, 68, 65, 89, 61, 77, 79>>

BaseSlots ==
    SlotMap(Str(TitleLunch), Str(DateText(2025, 6, 2)), Str(TimeText(13, 0)),
            Str(TimeText(14, 0)), Str(TZ_Toronto), Absent, Absent, Absent)

\* What the extraction returns: the base request with other dates and times
\* (a date beyond the horizon, inverted and equal times, the hour skipped when
\* the clocks go forward, a time with a trailing newline) ...
TimedSlots ==
    {[BaseSlots EXCEPT !["date"] = Str(d), !["start"] = Str(st), !["end"] = Str(en)] :
        d \in {DateText(2025, 6, 2), DateText(2027, 8, 11)},
        st \in {TimeText(13, 0), TimeText(14, 0)},
        en \in {TimeText(14, 0), TimeText(13, 0)}}
    \cup
    {[BaseSlots EXCEPT !["date"] = Str(DateText(2025, 3, 9)), !["start"] = Str(st),
                       !["end"] = Str(en)] :
        st \in {TimeText(2, 30)}, en \in {TimeText(3, 0), TimeText(1, 0)}}
    \cup
    {[BaseSlots EXCEPT !["date"] = Str(d), !["start"] = Str(TimeText(13, 0) \o <<10>>)] :
        d \in {DateText(2025, 6, 2), DateText(2027, 8, 11)}}

\* The repeat-rule prefix as a model may write it, in lower case.
LowerRRulePrefix == <<114, 114, 117, 108, 101, 58>>

\* ... with the optional fields absent, null, empty or given (the repeat rule
\* bare, prefixed, and prefixed in lower case) ...
OptionalSlots ==
    {[BaseSlots EXCEPT !["notes"] = n, !["location"] = l] :
        n \in {Absent, Null, Str(<<>>), Str(BringID)},
        l \in {Absent, Str(Campus)}}
    \cup
    {[BaseSlots EXCEPT !["location"] = l, !["recurrence"] = r] :
        l \in {Absent, Str(Campus)},
        r \in {Str(<<>>), Str(FreqWeekly), Str(RRulePrefix \o FreqWeekly)}}
    \cup
    {[BaseSlots EXCEPT !["recurrence"] = Str(LowerRRulePrefix \o FreqWeekly)]}

\* ... with other titles and zones, and with fields that fail the hard checks.
OtherSlots ==
    { [BaseSlots EXCEPT !["title"] = Str(Rep(97, MAX_TITLE_LENGTH))],
      [BaseSlots EXCEPT !["title"] = Str(Rep(97, MAX_TITLE_LENGTH + 1))],
      [BaseSlots EXCEPT !["title"] = Str(Rep(97, MAX_TITLE_LENGTH + 1)),
                        !["date"] = Str(DateText(2027, 8, 11))],
      [BaseSlots EXCEPT !["tz"] = Str(TZ_UTC)],
      [BaseSlots EXCEPT !["title"] = Absent],
      [BaseSlots EXCEPT !["date"] = Str(DateText(2024, 13, 40))],
      [BaseSlots EXCEPT !["start"] = Str(TimeText(25, 0))],
      [BaseSlots EXCEPT !["tz"] = Str(TZ_Mars)],
      [BaseSlots EXCEPT !["date"] = Str(DateText(2024, 13, 40)), !["tz"] = Str(TZ_Mars)] }

ExtractedSlots == TimedSlots \cup OptionalSlots \cup OtherSlots

\* The replies enumerated for a prompt: all of them for a request, the base
\* request for a prompt that is empty once sanitized.
Replies(text) == IF text = <<>> THEN {BaseSlots} ELSE ExtractedSlots

\* What extract_slots raises when the transport or the parse of the reply fails.
ExtractionFailures ==
    { GenericError("APIConnectionError", Msg("Connection error.", <<>>)),
      GenericError("JSONDecodeError",
                   Msg("Expecting value: line 1 column 1 (char 0)", <<>>)) }

\* The handler starts on a fresh instance, or on one a request short of the limit.
Init ==
    /\ \E n \in {0, RATE_LIMIT_REQUESTS - 1} : InitInstance(n)
    /\ pc = "Start"
    /\ IdleRun

Show(title, text) == [title |-> title, text |-> text]

\* is_authenticated() and the offer to sign in.
AuthCheck ==
    /\ pc = "Start"
    /\ \E outcome \in {"authenticated", "signed_in", "sign_in_failed", "declined"} :
          /\ pc' = IF outcome \in {"authenticated", "signed_in"} THEN "Input" ELSE "Exit"
          /\ shown' = IF outcome = "sign_in_failed"
                      THEN Show("Sign In Failed", Msg("sign-in error", <<>>))
                      ELSE shown
    /\ UNCHANGED <<limiterVars, runData, overridden, confirmed, written>>

\* InputDialog.getText: cancelled, blank (asked again), or a prompt handed to
\* build_event_dict_from_prompt.
GetInput ==
    /\ pc = "Input"
    /\ \E ok \in BOOLEAN, p \in AppPrompts :
          IF ~ok
          THEN pc' = "Exit" /\ UNCHANGED <<limiterVars, runData, uiVars>>
          ELSE IF Strip(p) = <<>>
          THEN UNCHANGED vars
          ELSE /\ calls < MaxPrompts
               /\ prompt' = p
               /\ pc' = "Gate"
               /\ stages' = <<>>
               /\ ev' = NoSlots
               /\ warnings' = <<>>
               /\ start_dt' = NoDatetime
               /\ end_dt' = NoDatetime
               /\ result' = NoResult
               /\ err' = NoError
               /\ gate' = NoGate
               /\ shown' = NoShown
               /\ overridden' = FALSE
               /\ confirmed' = FALSE
               /\ UNCHANGED <<now, request_timestamps, admitted, ticks, calls, threads,
                              written>>


\* Step 1 of build_event_dict_from_prompt: validate_and_sanitize on the shared
\* InputValidator.  The run passes Sanitizing, and RateGated when the length
\* check has passed.
GateStep ==
    \E res \in {validate_and_sanitize(prompt, request_timestamps, now)} :
        /\ pc = "Gate"
        /\ calls' = calls + 1
        /\ request_timestamps' = res.stamps
        /\ admitted' = IF res.ok THEN Append(admitted, now) ELSE admitted
        /\ gate' = [called |-> TRUE, ok |-> res.ok, sanitized |-> res.sanitized,
                    err |-> res.err]
        /\ stages' = IF res.err.kind = "InputTooLong"
                     THEN <<"Sanitizing">>
                     ELSE <<"Sanitizing", "RateGated">>
        /\ err' = res.err
        /\ pc' = StageOutcome(res.err, "Extracting")
        /\ UNCHANGED <<now, ticks, prompt, threads, ev, warnings, start_dt, end_dt, result,
                       uiVars>>

\* Step 3: extract_slots, which returns a slot map or raises.
ExtractStep ==
    /\ pc = "Extracting"
    /\ stages' = Append(stages, "Extracting")
    /\ \/ \E slots \in Replies(gate.sanitized) :
             /\ ev' = slots
             /\ err' = NoError
             /\ pc' = StageOutcome(NoError, "StructureValidating")
       \/ \E e \in ExtractionFailures :
             /\ ev' = ev
             /\ err' = e
             /\ pc' = StageOutcome(e, "StructureValidating")
    /\ UNCHANGED <<limiterVars, warnings, start_dt, end_dt, result, uiVars>>

\* Steps 5 and 6: the zoned datetimes, swapped when inverted.
ParseTimes ==
    \E r \in {parse_times(ev)} :
        /\ pc = "Assembling"
        /\ stages' = Append(stages, "Assembling")
        /\ start_dt' = r.start
        /\ end_dt' = r.end
        /\ err' = r.err
        /\ pc' = StageOutcome(r.err, "ConstraintChecking")
        /\ UNCHANGED <<limiterVars, ev, warnings, result, uiVars>>

\* Step 7: check_time_constraints, whose warnings extend the list.
CheckConstraints ==
    /\ pc = "ConstraintChecking"
    /\ stages' = Append(stages, "ConstraintChecking")
    /\ warnings' = warnings \o check_time_constraints(start_dt, end_dt, now)
    /\ pc' = "Building"
    /\ UNCHANGED <<limiterVars, ev, start_dt, end_dt, result, err, uiVars>>

SpecConstraints == InitConstraints /\ [][CheckConstraints]_vars

\* Steps 8 and 9: the event dict.
BuildEvent_returns ==
    \E r \in {build_event(ev, start_dt, end_dt)} :
        /\ pc = "Building"
        /\ stages' = IF r.err.kind = "none" THEN stages \o <<"Assembling", "Done">>
                     ELSE Append(stages, "Assembling")
        /\ result' = [ok |-> r.err.kind = "none", event |-> r.event, warnings |-> warnings]
        /\ err' = r.err
        /\ pc' = StageOutcome(r.err, "Done")
        /\ UNCHANGED <<limiterVars, ev, warnings, start_dt, end_dt, uiVars>>

BuildEvent ==
    \E r \in {build_event(ev, start_dt, end_dt)} :
        /\ pc = "Building"
        /\ stages' = Append(stages, "Assembling")
        /\ result' = [ok |-> FALSE, event |-> r.event, warnings |-> <<>>]
        /\ err' = r.err
        /\ pc' = StageOutcome(r.err, "SanityChecking")
        /\ UNCHANGED <<limiterVars, ev, warnings, start_dt, end_dt, uiVars>>

\* Step 10 and the return: sanity_check_event, then (event, warnings).
SanityCheck ==
    /\ pc = "SanityChecking"
    /\ stages' = stages \o <<"SanityChecking", "Done">>
    /\ warnings' = warnings \o sanity_check_event(ev)
    /\ result' = [ok |-> TRUE, event |-> result.event,
                  warnings |-> warnings \o sanity_check_event(ev)]
    /\ pc' = "Done"
    /\ UNCHANGED <<limiterVars, ev, start_dt, end_dt, err, uiVars>>

\* The text the except clauses of the request loop put in the message box:
\* e.user_message of a ValidationError, str(e) of any other exception.
SurfacedText(e) == IF IsValidationError(e) THEN e.user_message ELSE e.message

SurfacedTitle(e) ==
    CASE e.kind = "RateLimitExceeded" -> "Please Wait"
      [] e.kind = "InputTooLong" -> "Input Too Long"
      [] IsValidationError(e) /\ e.kind \notin {"RateLimitExceeded", "InputTooLong"}
            -> "Couldn't Parse Event"
      [] OTHER -> "AI Error"

\* The except clauses: a rate limit ends the handler, anything else lets the
\* user edit the prompt.
HandleFailure_refund ==
    /\ pc = "Failed"
    /\ shown' = Show(SurfacedTitle(err), SurfacedText(err))
    /\ pc' = IF err.kind = "RateLimitExceeded" THEN "Exit" ELSE "Input"
    /\ request_timestamps' = IF gate.ok
                             THEN SubSeq(request_timestamps, 1, Len(request_timestamps) - 1)
                             ELSE request_timestamps
    /\ UNCHANGED <<now, admitted, ticks, calls, prompt, gate, threads, runData, overridden,
                   confirmed, written>>

HandleFailure ==
    /\ pc = "Failed"
    /\ shown' = Show(SurfacedTitle(err), SurfacedText(err))
    /\ pc' = IF err.kind = "RateLimitExceeded" THEN "Exit" ELSE "Input"
    /\ UNCHANGED <<limiterVars, runData, overridden, confirmed, written>>

\* Where the loop goes when the user declines a dialog: back to the input.
AfterDecline_ignored == "Submit"

AfterDecline == "Input"

\* After a successful run: "Are you sure?" when there are warnings.
WarnDialog ==
    /\ pc = "Done"
    /\ IF result.warnings # <<>>
       THEN \E accepted \in BOOLEAN :
               /\ overridden' = accepted
               /\ pc' = IF accepted THEN "Confirm" ELSE AfterDecline
       ELSE /\ pc' = "Confirm"
            /\ UNCHANGED overridden
    /\ UNCHANGED <<limiterVars, runData, shown, confirmed, written>>

\* show_event_confirmation
ConfirmDialog ==
    /\ pc = "Confirm"
    /\ \E accepted \in BOOLEAN :
          /\ confirmed' = accepted
          /\ pc' = IF accepted THEN "Submit" ELSE AfterDecline
    /\ UNCHANGED <<limiterVars, runData, shown, overridden, written>>

\* The calendar write: add_event_to_google for provider 0, which may fail;
\* the other providers are not implemented.
Submit ==
    /\ pc = "Submit"
    /\ \E provider \in 0..2, created \in BOOLEAN :
          IF provider = 0 /\ created
          THEN /\ written' = Append(written, result.event)
               /\ shown' = Show("Event added to calendar", NoMsg)
               /\ pc' = "Exit"
          ELSE /\ written' = written
               /\ shown' = Show("Calendar Error", Msg("calendar error", <<>>))
               /\ pc' = "Input"
    /\ UNCHANGED <<limiterVars, runData, overridden, confirmed>>

Next ==
    \/ AuthCheck
    \/ GetInput
    \/ GateStep
    \/ ExtractStep
    \/ StructureValidate
    \/ ParseTimes
    \/ CheckConstraints
    \/ BuildEvent
    \/ SanityCheck
    \/ HandleFailure
    \/ WarnDialog
    \/ ConfirmDialog
    \/ Submit
    \/ \E d \in ClockSteps : Tick(d)

Spec == Init /\ [][Next]_vars

(***************************************************************************)
(* Properties of the limiter.                                              *)
(***************************************************************************)
\* The admitted requests whose instant lies in (t - window, t].
AdmittedInWindow(t) ==
    {i \in DOMAIN admitted : admitted[i] > t - WindowTicks /\ admitted[i] <= t}

\* The wait a RateLimitExceeded error reports, in seconds.
ReportedWait(e) == e.user_message.args[1][1]

\* A step that is a call whose sanitized input is within the length limit.
ValidCall == calls' = calls + 1 /\ ~TooLong(Sanitize(prompt'))

\* A step that is a call whose sanitized input is longer than the limit.
TooLongCall == calls' = calls + 1 /\ TooLong(Sanitize(prompt'))

\* C1: with serialized callers and a non-decreasing clock, at every instant t
\* at most RATE_LIMIT_REQUESTS admitted requests have their timestamp in
\* (t - RATE_LIMIT_WINDOW_SECONDS, t].  (No request is admitted at an instant
\* later than now, so the instants up to now decide it.)
C1_WindowBound ==
    \A t \in 0..now : Cardinality(AdmittedInWindow(t)) <= RATE_LIMIT_REQUESTS

\* More requests have been admitted than fit one window, the last of them
\* after the window of the first ones had passed.
C1_Witness ==
    /\ Len(admitted) > RATE_LIMIT_REQUESTS
    /\ gate.ok
    /\ Cardinality(AdmittedInWindow(now)) < Len(admitted)

\* C2: a call whose sanitized input exceeds MAX_INPUT_LENGTH fails with
\* InputTooLong and leaves the timestamps list as it was (nothing pruned,
\* nothing appended, nothing admitted), so that the calls that follow are
\* admitted as if it had not happened: on a fresh window RATE_LIMIT_REQUESTS
\* further calls are all admitted.
C2_TooLongConsumesNoSlot ==
    [][TooLongCall =>
          /\ ~gate'.ok
          /\ gate'.err.kind = "InputTooLong"
          /\ request_timestamps' = request_timestamps
          /\ admitted' = admitted
          /\ (request_timestamps = <<>> =>
                 AllAdmitted(request_timestamps', now', RATE_LIMIT_REQUESTS))]_vars

\* A too-long call was rejected while one slot short of the limit, and the
\* list still holds exactly the slots it held.
C2_Witness ==
    /\ gate.called
    /\ gate.err.kind = "InputTooLong"
    /\ prompt = LongText
    /\ Len(request_timestamps) = RATE_LIMIT_REQUESTS - 1
    /\ request_timestamps = admitted

\* C3: while fewer than RATE_LIMIT_REQUESTS requests have been admitted since
\* the window was empty, a call is admitted; when RATE_LIMIT_REQUESTS have
\* been admitted, all within the current window, the next call fails with
\* RateLimitExceeded and reports a wait of at least 1 second; when the clock
\* has advanced past the window since every admission, the call is admitted.
C3_FillRejectRecover ==
    [][ValidCall =>
          /\ (Len(admitted) < RATE_LIMIT_REQUESTS => gate'.ok)
          /\ ((/\ Len(admitted) = RATE_LIMIT_REQUESTS
               /\ \A i \in DOMAIN admitted : admitted[i] > now - WindowTicks)
                 => /\ ~gate'.ok
                    /\ gate'.err.kind = "RateLimitExceeded"
                    /\ ReportedWait(gate'.err) >= 1)
          /\ ((\A i \in DOMAIN admitted : admitted[i] + WindowTicks < now)
                 => gate'.ok)]_vars

\* RATE_LIMIT_REQUESTS requests were admitted, and one more once the window
\* of all of them had passed.
C3_Witness ==
    /\ Len(admitted) = RATE_LIMIT_REQUESTS + 1
    /\ gate.ok
    /\ \A i \in 1..RATE_LIMIT_REQUESTS : admitted[i] + WindowTicks < now
    /\ admitted[RATE_LIMIT_REQUESTS + 1] = now

\* The timestamps a call keeps: those not at or before now - window.
KeptAt(stamps, t) == SelectSeq(stamps, LAMBDA ts : ~(ts <= t - WindowTicks))

\* C4: every admit call first prunes the timestamps <= now - window; it
\* fails with RateLimitExceeded exactly when RATE_LIMIT_REQUESTS or more
\* remain, and then records nothing; otherwise it appends exactly one
\* timestamp, equal to now, and succeeds.
C4_AdmitStep ==
    [][ValidCall =>
          LET kept == KeptAt(request_timestamps, now)
          IN  /\ (gate'.err.kind = "RateLimitExceeded"
                    <=> Len(kept) >= RATE_LIMIT_REQUESTS)
              /\ (Len(kept) >= RATE_LIMIT_REQUESTS =>
                    /\ ~gate'.ok
                    /\ request_timestamps' = kept
                    /\ admitted' = admitted)
              /\ (Len(kept) < RATE_LIMIT_REQUESTS =>
                    /\ gate'.ok
                    /\ request_timestamps' = Append(kept, now)
                    /\ admitted' = Append(admitted, now))]_vars

\* A call was rejected at an instant later than every recorded timestamp,
\* and the list holds no entry for it.
C4_Witness ==
    /\ gate.called
    /\ gate.err.kind = "RateLimitExceeded"
    /\ Len(request_timestamps) = RATE_LIMIT_REQUESTS
    /\ \A i \in DOMAIN request_timestamps : request_timestamps[i] < now

\* A step that is a call of validate_and_sanitize.
AnyCall == calls' = calls + 1

\* The limiter has no slot left at the instant of the call.
Exhausted == Len(KeptAt(request_timestamps, now)) >= RATE_LIMIT_REQUESTS

\* C14: validate_and_sanitize sanitizes, then checks the length, then asks
\* the limiter: a call fails with InputTooLong exactly when the sanitized
\* text is longer than MAX_INPUT_LENGTH, whatever the length of the raw text
\* and whatever the state of the limiter; a text within the limit is
\* returned sanitized when the limiter has a slot and fails with
\* RateLimitExceeded when it has none.
C14_SanitizeLengthRate ==
    [][AnyCall =>
          LET sanitized == Sanitize(prompt')
          IN  /\ (gate'.err.kind = "InputTooLong" <=> Len(sanitized) > MAX_INPUT_LENGTH)
              /\ (Len(sanitized) > MAX_INPUT_LENGTH /\ Exhausted =>
                     gate'.err.kind # "RateLimitExceeded")
              /\ (Len(sanitized) <= MAX_INPUT_LENGTH /\ ~Exhausted =>
                     gate'.ok /\ gate'.sanitized = sanitized)
              /\ (Len(sanitized) <= MAX_INPUT_LENGTH /\ Exhausted =>
                     gate'.err.kind = "RateLimitExceeded")]_vars

\* A text too long even when sanitized was rejected as InputTooLong while the
\* limiter had no slot left.
C14_Witness ==
    /\ gate.called
    /\ gate.err.kind = "InputTooLong"
    /\ Len(Sanitize(prompt)) > MAX_INPUT_LENGTH
    /\ Len(KeptAt(request_timestamps, now)) >= RATE_LIMIT_REQUESTS

\* A raw text longer than the limit was accepted, its sanitized form being
\* within it.
C14_RawLongAccepted ==
    /\ gate.ok
    /\ Len(prompt) > MAX_INPUT_LENGTH
    /\ Len(gate.sanitized) <= MAX_INPUT_LENGTH

\* The time from the start of the window to the oldest timestamp kept, in
\* ticks, at the instant of a call.
OldestOffset == KeptAt(request_timestamps, now)[1] - (now - WindowTicks)

\* C15 as stated: the wait a failed admission reports is exactly
\* (oldest remaining timestamp - window start) + 1 seconds, and lies in
\* [1, RATE_LIMIT_WINDOW_SECONDS + 1].
C15_WaitExact ==
    [][(ValidCall /\ gate'.err.kind = "RateLimitExceeded") =>
          /\ ReportedWait(gate'.err) * TicksPerSecond = OldestOffset + TicksPerSecond
          /\ ReportedWait(gate'.err) \in 1..(RATE_LIMIT_WINDOW_SECONDS + 1)]_vars

\* C15 amended: the wait a failed admission reports is the whole seconds of
\* (oldest remaining timestamp - window start), the fraction dropped, plus 1,
\* and lies in [1, RATE_LIMIT_WINDOW_SECONDS + 1].
C15_WaitWholeSeconds ==
    [][(ValidCall /\ gate'.err.kind = "RateLimitExceeded") =>
          /\ (ReportedWait(gate'.err) - 1) * TicksPerSecond <= OldestOffset
          /\ OldestOffset < ReportedWait(gate'.err) * TicksPerSecond
          /\ ReportedWait(gate'.err) \in 1..(RATE_LIMIT_WINDOW_SECONDS + 1)]_vars

\* A call was rejected a fraction of a second after the limiter was filled:
\* the oldest timestamp is that fraction short of a whole window old, and the
\* wait reported is the whole window.
C15_Witness ==
    /\ gate.called
    /\ gate.err.kind = "RateLimitExceeded"
    /\ request_timestamps[1] = 0
    /\ now = 1
    /\ ReportedWait(gate.err) = RATE_LIMIT_WINDOW_SECONDS

NonDecreasing(stamps) ==
    \A i \in 1..(Len(stamps) - 1) : stamps[i] <= stamps[i + 1]

\* C16 as stated: at every instant every stored timestamp lies within
\* [now - window, now] and the stored sequence is non-decreasing.
C16_AlwaysInWindow ==
    /\ \A i \in DOMAIN request_timestamps :
           /\ now - WindowTicks <= request_timestamps[i]
           /\ request_timestamps[i] <= now
    /\ NonDecreasing(request_timestamps)

\* C16 amended: at every instant the stored sequence is non-decreasing and
\* holds no timestamp later than now, and right after an admission check
\* every stored timestamp lies within (now - window, now]; between checks a
\* timestamp that has left the window stays stored.
C16_InWindowAfterCheck ==
    [][ /\ NonDecreasing(request_timestamps)
        /\ \A i \in DOMAIN request_timestamps : request_timestamps[i] <= now
        /\ (ValidCall =>
               \A i \in DOMAIN request_timestamps' :
                   /\ now' - WindowTicks < request_timestamps'[i]
                   /\ request_timestamps'[i] <= now')
      ]_vars

\* An admission check has pruned timestamps that had left the window and
\* recorded its own.
C16_Witness ==
    /\ gate.ok
    /\ Len(request_timestamps) < Len(admitted)
    /\ admitted[1] + WindowTicks <= now
    /\ request_timestamps[Len(request_timestamps)] = now
    /\ \A i \in DOMAIN request_timestamps : request_timestamps[i] > now - WindowTicks

(***************************************************************************)
(* Properties of validate_event.                                           *)
(***************************************************************************)
Validated == pc # "StructureValidating"

\* A YYYY-MM-DD text denoting a real calendar date.
IsRealDate(s) ==
    /\ Len(s) = 10
    /\ \A i \in {1, 2, 3, 4, 6, 7, 9, 10} : s[i] \in 48..57
    /\ s[5] = 45 /\ s[8] = 45
    /\ Num4(s, 1) >= 1
    /\ Num2(s, 6) \in 1..12
    /\ Num2(s, 9) \in 1..DaysInMonth(Num4(s, 1), Num2(s, 6))

\* An HH:MM text with hour in [0,23] and minute in [0,59].
IsHHMM(s) ==
    /\ Len(s) = 5
    /\ \A i \in {1, 2, 4, 5} : s[i] \in 48..57
    /\ s[3] = 58
    /\ Num2(s, 1) \in 0..23
    /\ Num2(s, 4) \in 0..59

AllPresent(slots) ==
    \A i \in DOMAIN RequiredFields :
        slots[RequiredFields[i]].k = "str" /\ slots[RequiredFields[i]].s # <<>>

WellFormed(slots) ==
    /\ AllPresent(slots)
    /\ IsRealDate(slots["date"].s)
    /\ IsHHMM(slots["start"].s)
    /\ IsHHMM(slots["end"].s)
    /\ slots["tz"].s \in KnownZones

\* C7: validate_event succeeds if and only if the five required fields are
\* present and non-empty, date is a YYYY-MM-DD text of a real date, start and
\* end are HH:MM texts in range and tz is a recognized zone; a missing field, a
\* bad date or a bad time fails with InvalidEventData, and an unrecognized tz
\* with everything else valid fails with InvalidTimezone.
C7_ValidateIff ==
    Validated =>
        /\ (err.kind = "none" <=> WellFormed(ev))
        /\ ((\/ ~AllPresent(ev)
             \/ ~IsRealDate(ev["date"].s)
             \/ ~IsHHMM(ev["start"].s)
             \/ ~IsHHMM(ev["end"].s)) => err.kind = "InvalidEventData")
        /\ ((/\ AllPresent(ev)
             /\ IsRealDate(ev["date"].s)
             /\ IsHHMM(ev["start"].s)
             /\ IsHHMM(ev["end"].s)
             /\ ev["tz"].s \notin KnownZones) => err.kind = "InvalidTimezone")

\* C17: when validate_event succeeds it returns the slots as they were given
\* and a warnings list that is empty for a title of at most 100 characters
\* and holds exactly one warning, naming the length of the title and the
\* recommended maximum 100, for a longer one.
C17_TitleWarning ==
    [][(pc = "StructureValidating" /\ err'.kind = "none") =>
          /\ ev' = ev
          /\ (Len(ev["title"].s) <= 100 => warnings' = <<>>)
          /\ (Len(ev["title"].s) > 100 =>
                 warnings' = << Msg("Title is {} characters (recommended max: {})",
                                    <<(<<Len(ev["title"].s)>>), (<<100>>)>>) >>)]_vars

\* A slot map with a title of 101 characters was validated with one warning.
C17_Witness ==
    /\ Validated
    /\ err.kind = "none"
    /\ Len(ev["title"].s) = 101
    /\ Len(warnings) = 1
    /\ warnings[1].args = <<(<<101>>), (<<100>>)>>

\* A slot map with a title of 100 characters was validated without a warning.
C17_NoWarningAtMaximum ==
    /\ Validated
    /\ err.kind = "none"
    /\ Len(ev["title"].s) = 100
    /\ warnings = <<>>

\* The five hard checks, each applied on its own, in the order required
\* fields, date, start, end, tz.
AllChecks(slots) ==
    << check_required_fields(slots),
       check_date_format(slots["date"].s),
       check_time_format(slots["start"].s, "start"),
       check_time_format(slots["end"].s, "end"),
       check_timezone(slots["tz"].s) >>

\* C8: the error validate_event raises is that of the earliest failing check
\* in the order required fields, date, start, end, tz, whatever the later
\* checks would say; no check failing, it raises nothing.
C8_FirstFailingCheck ==
    Validated => err = FirstError(AllChecks(ev))

\* A slot map with a date that does not exist, a bad start, a bad end and an
\* unknown zone was rejected as InvalidEventData, for its date.
C8_Witness ==
    /\ Validated
    /\ AllPresent(ev)
    /\ ev["date"].s = DateText(2024, 13, 40)
    /\ ev["start"].s = TimeText(25, 0)
    /\ ev["end"].s = TimeText(24, 0)
    /\ check_timezone(ev["tz"].s).kind = "InvalidTimezone"
    /\ err.kind = "InvalidEventData"
    /\ err.message.tpl = "Invalid date: {}"

(***************************************************************************)
(* Properties of the pipeline and of the request loop.                     *)
(***************************************************************************)
HasStage(name) == \E i \in DOMAIN stages : stages[i] = name

\* The stages a run has passed when its two datetimes have just been built.
UpToAssembling ==
    <<"Sanitizing", "RateGated", "Extracting", "StructureValidating", "Assembling">>

\* Two HH:MM clock times, the end before the start.
InvertedPair(slots) ==
    /\ WellFormed(slots)
    /\ FromIsoFormat(slots["date"].s, slots["end"].s)
           < FromIsoFormat(slots["date"].s, slots["start"].s)

\* C5: every event the pipeline emits has its start at or before its end; a
\* run whose HH:MM times are inverted does not fail when the datetimes are
\* built: it goes on with the two datetimes exchanged.
C5_StartNotAfterEnd ==
    /\ result.ok => Instant(result.event.start) <= Instant(result.event.end)
    /\ (stages = UpToAssembling /\ InvertedPair(ev)) =>
           /\ pc = "ConstraintChecking"
           /\ err.kind = "none"
           /\ start_dt = Localize(ev["tz"].s, FromIsoFormat(ev["date"].s, ev["end"].s))
           /\ end_dt = Localize(ev["tz"].s, FromIsoFormat(ev["date"].s, ev["start"].s))

\* A run given start 14:00 and end 13:00 emitted an event from 13:00 to 14:00.
C5_Witness ==
    /\ pc = "Done"
    /\ result.ok
    /\ ev["start"].s = TimeText(14, 0)
    /\ ev["end"].s = TimeText(13, 0)
    /\ InvertedPair(ev)
    /\ result.event.start = Localize(ev["tz"].s, FromIsoFormat(ev["date"].s, TimeText(13, 0)))
    /\ result.event.end = Localize(ev["tz"].s, FromIsoFormat(ev["date"].s, TimeText(14, 0)))

\* What fromisoformat and localize make of the start and end texts.
ParsedStart == Localize(ev["tz"].s, FromIsoFormat(ev["date"].s, ev["start"].s))
ParsedEnd == Localize(ev["tz"].s, FromIsoFormat(ev["date"].s, ev["end"].s))

WarningTemplates ==
    {"Title is {} characters (recommended max: {})",
     "Event is more than {} years in the future",
     "Event duration is {} days"}

\* C19: when the parsed end is an earlier instant than the parsed start, the
\* run goes on with the two exchanged, and otherwise with the two as parsed;
\* the step raises nothing and leaves the warnings as they were, and the
\* event emitted carries exactly these two datetimes and no warning other
\* than those of the title, the horizon and the duration.
C19_SilentSwap ==
    [][ /\ (pc = "Assembling" /\ WellFormed(ev) =>
               /\ err'.kind = "none"
               /\ pc' = "ConstraintChecking"
               /\ warnings' = warnings
               /\ (Instant(ParsedEnd) < Instant(ParsedStart) =>
                      start_dt' = ParsedEnd /\ end_dt' = ParsedStart)
               /\ (Instant(ParsedEnd) >= Instant(ParsedStart) =>
                      start_dt' = ParsedStart /\ end_dt' = ParsedEnd))
        /\ (result'.ok =>
               /\ result'.event.start = start_dt'
               /\ result'.event.end = end_dt'
               /\ \A i \in DOMAIN result'.warnings :
                      result'.warnings[i].tpl \in WarningTemplates)
      ]_vars

\* A run given 02:30 to 03:00 on the day the clocks go forward in Toronto,
\* where 03:00 is the earlier instant, emitted an event from 03:00 to 02:30
\* and no warning.
C19_Witness ==
    /\ pc = "Done"
    /\ result.ok
    /\ WellFormed(ev)
    /\ ev["start"].s = TimeText(2, 30)
    /\ ev["end"].s = TimeText(3, 0)
    /\ Instant(ParsedEnd) < Instant(ParsedStart)
    /\ result.event.start = ParsedEnd
    /\ result.event.end = ParsedStart
    /\ result.warnings = <<>>

\* notes when present and non-empty, otherwise the default; then the
\* location line when a location is present.
ExpectedDescription(slots) ==
    (IF slots["notes"].k = "str" /\ slots["notes"].s # <<>>
     THEN slots["notes"].s
     ELSE <<65, 100, 100, 101, 100, 32, 118, 105, 97, 32, 65, 73, 32, 83, 99, 104, 101,
            100, 117, 108, 101, 114>>)
    \o
    (IF slots["location"].k = "str" /\ slots["location"].s # <<>>
     THEN <<10, 76, 111, 99, 97, 116, 105, 111, 110, 58, 32>> \o slots["location"].s
     ELSE <<>>)

\* C20: the event emitted has the title as its summary and, as its
\* description, the notes when present and non-empty and otherwise "Added via
\* AI Scheduler" (also for notes that are empty or null), followed by
\* "\nLocation: " and the location when a location is present.
C20_SummaryAndDescription ==
    result.ok =>
        /\ result.event.summary = ev["title"].s
        /\ result.event.description = Str(ExpectedDescription(ev))

HardFailureKinds ==
    {"InputTooLong", "RateLimitExceeded", "InvalidEventData", "InvalidTimezone",
     "APIConnectionError", "JSONDecodeError", "ValueError", "TypeError",
     "UnknownTimeZoneError"}

\* C6: a run that has raised executes no later stage and emits no event: it
\* is handed to the except clauses and its trace of stages ends there.  A
\* request rejected by validate_and_sanitize never reaches extract_slots, a
\* slot map rejected by validate_event never reaches the datetimes, and the
\* run never ends in a soft-check stage.
C6_HardFailureAborts ==
    [][ /\ (err.kind # "none" =>
               /\ err.kind \in HardFailureKinds
               /\ pc \in {"Failed", "Input", "Exit"}
               /\ ~result.ok
               /\ ~HasStage("Done")
               /\ written = <<>>
               /\ (pc' # "Gate" => stages' = stages /\ result' = result /\ written' = written))
        /\ (err.kind \in {"InputTooLong", "RateLimitExceeded"} =>
               /\ ~HasStage("Extracting")
               /\ ev = NoSlots)
        /\ (err.kind \in {"InvalidEventData", "InvalidTimezone"} =>
               /\ stages[Len(stages)] = "StructureValidating"
               /\ ~HasStage("Assembling")
               /\ start_dt = NoDatetime /\ end_dt = NoDatetime)
        /\ (pc = "Failed" =>
               /\ err.kind # "none"
               /\ stages[Len(stages)] \notin {"ConstraintChecking", "SanityChecking"})
        /\ (pc \in {"ConstraintChecking", "SanityChecking"} => pc' # "Failed")
      ]_vars

\* A request was rejected by the rate limit and the run stopped before the
\* extraction.
C6_Witness ==
    /\ pc = "Failed"
    /\ err.kind = "RateLimitExceeded"
    /\ stages = <<"Sanitizing", "RateGated">>
    /\ ev = NoSlots
    /\ result = NoResult

\* C9: the calendar write happens only in the submit step of a run that
\* returned an event, after the user accepted the confirmation preview and,
\* the warnings list being non-empty, the "Are you sure?" question; declining
\* either dialog leads back to the input without a write.
C9_WriteOnlyConfirmed ==
    [][ /\ (pc = "Submit" \/ written' # written =>
               /\ pc = "Submit"
               /\ result.ok
               /\ err.kind = "none"
               /\ confirmed
               /\ (result.warnings # <<>> => overridden))
        /\ (written' # written => written' = Append(written, result.event))
        /\ (pc = "Done" /\ result.warnings # <<>> /\ ~overridden' =>
               pc' = "Input" /\ written' = written)
        /\ (pc = "Confirm" /\ ~confirmed' =>
               pc' = "Input" /\ written' = written)
      ]_vars

\* An event with a warning was written after both dialogs were accepted.
C9_Witness ==
    /\ written # <<>>
    /\ written[1] = result.event
    /\ result.warnings # <<>>
    /\ overridden
    /\ confirmed

PipelineFailureTitles == {"Please Wait", "Input Too Long", "Couldn't Parse Event", "AI Error"}

\* C10: every error of a failed run carries a user-facing text beside its
\* internal text, and the box shown for the failure holds the user-facing
\* text, not the internal one.
C10_UserFacingTextOnly ==
    shown.title \in PipelineFailureTitles =>
        /\ err.kind # "none"
        /\ err.user_message # NoMsg
        /\ err.user_message # err.message
        /\ shown.text = err.user_message

\* The kind under which a failed run surfaces: that of a ValidationError, the
\* generic ExtractionFailed for whatever extract_slots raised, and otherwise
\* the type of the exception that left the pipeline.
FailureKind ==
    IF IsValidationError(err) THEN err.kind
    ELSE IF stages[Len(stages)] = "Extracting" THEN "ExtractionFailed"
    ELSE err.kind

\* C11: a run ends in Done with an event and its warnings, or in Failed with a
\* kind among InputTooLong, RateLimitExceeded, InvalidEventData,
\* InvalidTimezone and ExtractionFailed; nothing else leaves the pipeline.
C11_FailureKinds ==
    /\ pc = "Done" => result.ok /\ result.event # NoEvent
    /\ pc = "Failed" =>
           FailureKind \in {"InputTooLong", "RateLimitExceeded", "InvalidEventData",
                            "InvalidTimezone", "ExtractionFailed"}

(***************************************************************************)
(* Properties of _sanitize.                                                *)
(***************************************************************************)
Sanitized == pc = "Sanitized"

\* The code points 0x00-0x08, 0x0B, 0x0C, 0x0E-0x1F and 0x7F.
ListedControl(c) ==
    \/ c \in 0..8
    \/ c = 11
    \/ c = 12
    \/ c \in 14..31
    \/ c = 127

HasWhitespaceRun(s) ==
    \E i \in 1..(Len(s) - 1) : s[i] \in PyWhitespace /\ s[i + 1] \in PyWhitespace

\* C12: the output of _sanitize holds none of the listed control characters
\* and no two consecutive whitespace characters.
C12_NoControlNoRun ==
    Sanitized =>
        /\ \A i \in DOMAIN gate.sanitized : ~ListedControl(gate.sanitized[i])
        /\ ~HasWhitespaceRun(gate.sanitized)

\* "a", space, NUL, TAB, "a": deleting the NUL leaves a run of two, and the
\* output is "a a".
C12_Witness ==
    /\ Sanitized
    /\ prompt = <<97, 32, 0, 9, 97>>
    /\ gate.sanitized = <<97, 32, 97>>

\* C13: the output of _sanitize neither starts nor ends with a whitespace
\* character.
C13_NoOuterWhitespace ==
    (Sanitized /\ gate.sanitized # <<>>) =>
        /\ gate.sanitized[1] \notin PyWhitespace
        /\ gate.sanitized[Len(gate.sanitized)] \notin PyWhitespace

(***************************************************************************)
(* Properties of check_time_constraints.                                   *)
(***************************************************************************)
ConstraintsChecked == stages # <<>> /\ stages[Len(stages)] = "ConstraintChecking"

\* Minutes from start to end, as instants.
Elapsed == Instant(end_dt) - Instant(start_dt)

\* C18: check_time_constraints raises nothing and returns a far-future
\* warning, stating 2 years, exactly when start is later than now plus 730
\* days, followed by a duration warning, stating the whole days, exactly when
\* end - start is more than 7 days; a negative duration gives no warning.
C18_ConstraintWarnings ==
    ConstraintsChecked =>
        /\ pc = "Building"
        /\ err = NoError
        /\ warnings =
             (IF Instant(start_dt) > NowMinutes(now) + 730 * 24 * 60
              THEN << Msg("Event is more than {} years in the future", <<(<<2>>)>>) >>
              ELSE <<>>)
             \o
             (IF Elapsed > 7 * 24 * 60
              THEN << Msg("Event duration is {} days", <<(<<Elapsed \div (24 * 60)>>)>>) >>
              ELSE <<>>)

\* A start one minute past the horizon with an end exactly 7 days later got
\* the far-future warning alone.
C18_Witness ==
    /\ ConstraintsChecked
    /\ Instant(start_dt) = NowMinutes(now) + 730 * 24 * 60 + 1
    /\ Elapsed = 7 * 24 * 60
    /\ Len(warnings) = 1
    /\ warnings[1].tpl = "Event is more than {} years in the future"

\* An end before the start got no warning.
C18_NegativeSpan ==
    /\ ConstraintsChecked
    /\ Elapsed < 0
    /\ warnings = <<>>

(***************************************************************************)
(* The recurrence of the emitted event                                     *)
(* (build_event_dict_from_prompt, step 9).                                 *)
(***************************************************************************)
Emitted == pc = "Done" /\ result.ok

\* The text after the first Len(RRulePrefix) characters.
AfterPrefix(text) == SubSeq(text, Len(RRulePrefix) + 1, Len(text))

\* C21: whenever the extracted recurrence is present and non-empty, the
\* emitted event's recurrence is a one-element sequence whose element starts
\* with "RRULE:" and carries it only once, the same element for the bare rule
\* and for the rule already prefixed; otherwise the event has no recurrence.
C21_RecurrencePrefixedOnce ==
    Emitted =>
        IF Truthy(ev["recurrence"])
        THEN /\ Len(result.event.recurrence) = 1
             /\ StartsWith(result.event.recurrence[1], RRulePrefix)
             /\ ~StartsWith(AfterPrefix(result.event.recurrence[1]), RRulePrefix)
             /\ result.event.recurrence[1] \in
                    {ev["recurrence"].s, RRulePrefix \o ev["recurrence"].s}
        ELSE result.event.recurrence = <<>>

\* The bare and the prefixed rule both emitted as the prefixed rule.
C21_Witness ==
    /\ Emitted
    /\ ev["recurrence"] \in {Str(FreqWeekly), Str(RRulePrefix \o FreqWeekly)}
    /\ result.event.recurrence = <<RRulePrefix \o FreqWeekly>>

(***************************************************************************)
(* The stages of one run of build_event_dict_from_prompt.                  *)
(***************************************************************************)
StageOrder ==
    <<"Sanitizing", "RateGated", "Extracting", "StructureValidating", "Assembling",
      "ConstraintChecking", "SanityChecking", "Done">>

\* The order of the statements of build_event_dict_from_prompt: the times are
\* parsed and swapped before check_time_constraints, the event dict is built
\* after it.
StageOrderInCode ==
    <<"Sanitizing", "RateGated", "Extracting", "StructureValidating", "Assembling",
      "ConstraintChecking", "Assembling", "SanityChecking", "Done">>

RaisingStages ==
    {"Sanitizing", "RateGated", "Extracting", "StructureValidating", "Assembling"}

IsPrefix(s, t) == Len(s) <= Len(t) /\ SubSeq(t, 1, Len(s)) = s

\* A step of a run whose stages at Done are the order, which ends in Failed
\* only from a stage that can raise, and which enters no stage once Failed.
FollowsOrder(order) ==
    /\ pc' = "Done" => stages' = order
    /\ pc' = "Failed" =>
          /\ stages' # <<>>
          /\ stages'[Len(stages')] \in RaisingStages
    /\ pc = "Failed" => stages' = stages /\ pc' \notin {"Failed", "Done"}

\* C22 as stated: every successful run passes Sanitizing, RateGated, Extracting,
\* StructureValidating, Assembling, ConstraintChecking, SanityChecking, Done in
\* this order, each exactly once; Failed is terminal and entered only from a
\* stage that can raise.
C22_EachStageOnce == [][FollowsOrder(StageOrder)]_vars

\* C22: every successful run passes Sanitizing, RateGated, Extracting,
\* StructureValidating, Assembling, ConstraintChecking, Assembling,
\* SanityChecking, Done in this order, Assembling twice (the times before
\* ConstraintChecking, the event dict after it) and every other stage once;
\* Failed is terminal and entered only from a stage that can raise, the
\* stages passed before it being the first ones of this order.
C22_StagesInCodeOrder ==
    [][ /\ FollowsOrder(StageOrderInCode)
        /\ pc' = "Failed" => IsPrefix(stages', StageOrderInCode) ]_vars

C22_Witness == pc = "Done" /\ result.ok /\ stages = StageOrderInCode

(***************************************************************************)
(* The warnings returned by build_event_dict_from_prompt.                  *)
(***************************************************************************)
TitleFinding ==
    IF Len(ev["title"].s) > 100
    THEN << Msg("Title is {} characters (recommended max: {})",
                <<(<<Len(ev["title"].s)>>), (<<100>>)>>) >>
    ELSE <<>>

FarFutureFinding ==
    IF Instant(start_dt) > NowMinutes(now) + 730 * 24 * 60
    THEN << Msg("Event is more than {} years in the future", <<(<<2>>)>>) >>
    ELSE <<>>

DurationFinding ==
    IF Elapsed > 7 * 24 * 60
    THEN << Msg("Event duration is {} days", <<(<<Elapsed \div (24 * 60)>>)>>) >>
    ELSE <<>>

\* C23: the warnings returned at Done are exactly the title-length warning
\* (if any), then the far-future warning (if any), then the duration warning
\* (if any); the sanity pass is passed and adds, removes and reorders nothing.
C23_WarningsInDiscoveryOrder ==
    Emitted =>
        /\ HasStage("SanityChecking")
        /\ result.warnings = TitleFinding \o FarFutureFinding \o DurationFinding
        /\ warnings = result.warnings

\* A long title and a far-future start: the two warnings in this order.
C23_Witness ==
    /\ Emitted
    /\ Len(result.warnings) = 2
    /\ result.warnings[1].tpl = "Title is {} characters (recommended max: {})"
    /\ result.warnings[2].tpl = "Event is more than {} years in the future"

(***************************************************************************)
(* Retries and rate-limit slots across the invocations of the request loop.*)
(***************************************************************************)
Times(stage, trace) == Cardinality({i \in DOMAIN trace : trace[i] = stage})

\* C24: within one invocation the admission is attempted at most once and
\* extract_slots is invoked at most once; the limiter changes only in the
\* gate of an invocation, where an invocation that passes consumes exactly
\* one slot (its timestamp appended to what the shared instance keeps of the
\* earlier invocations); no later step, failing or not, gives the slot
\* back, and a failed invocation runs no further stage.
C24_NoRetryNoRefund ==
    [][ /\ Times("RateGated", stages') <= 1
        /\ Times("Extracting", stages') <= 1
        /\ (request_timestamps' # request_timestamps \/ admitted' # admitted
                \/ calls' # calls) => (pc = "Gate" /\ calls' = calls + 1)
        /\ (pc = "Gate" /\ pc' = "Extracting") =>
              /\ admitted' = Append(admitted, now)
              /\ request_timestamps' = Append(KeptAt(request_timestamps, now), now)
        /\ pc = "Failed" => (stages' = stages /\ pc' \in {"Failed", "Input", "Exit"}) ]_vars

\* A second invocation, admitted after the first, has failed in its
\* structure validation: both slots stay consumed.
C24_Witness ==
    /\ calls = 2
    /\ Len(admitted) = 2
    /\ request_timestamps = admitted
    /\ pc = "Input"
    /\ err.kind = "InvalidEventData"
    /\ shown.title = "Couldn't Parse Event"

(***************************************************************************)
(* Runs whose slot map has passed validate_event.                          *)
(***************************************************************************)
PassedHardChecks == HasStage("Assembling")

\* The extracted start is later than now plus 730 days.
ExtractedStartFar == Instant(ParsedStart) > NowMinutes(now) + 730 * 24 * 60

\* C25: a run whose extraction result has passed the hard checks with a
\* title of at most 100 characters and a start more than 730 days after now
\* does not fail, and at Done returns exactly one far-future warning; with a
\* start within the horizon the warnings returned at Done are empty.
C25_SoftFindingsNeverBlock ==
    (PassedHardChecks /\ Len(ev["title"].s) <= 100) =>
        IF ExtractedStartFar
        THEN /\ pc # "Failed"
             /\ Emitted =>
                   result.warnings =
                      << Msg("Event is more than {} years in the future", <<(<<2>>)>>) >>
        ELSE Emitted => result.warnings = <<>>

\* A run with a start beyond the horizon that returned the far-future
\* warning alone.
C25_FarFutureEmitted ==
    /\ Emitted
    /\ Len(ev["title"].s) <= 100
    /\ ExtractedStartFar
    /\ Len(result.warnings) = 1
    /\ result.warnings[1].tpl = "Event is more than {} years in the future"

\* C28: once validate_event has accepted the slot map, no later step of the
\* run raises: the run is never Failed.
C28_AcceptedSlotsNeverRaise ==
    PassedHardChecks => (err = NoError /\ pc # "Failed")

\* An accepted slot map whose run has reached Done.
C28_AcceptedEmitted == PassedHardChecks /\ Emitted /\ err = NoError

(***************************************************************************)
(* The duration of the events the pipeline assembles.                      *)
(***************************************************************************)
DurationTemplate == "Event duration is {} days"

\* C29: in every run, from the constraint check on, start and end lie on
\* the same calendar day, end - start is shorter than 7 days, and no
\* duration warning is among the warnings.
C29_NoDurationWarning ==
    HasStage("ConstraintChecking") =>
        /\ start_dt.naive \div MinutesPerDay = end_dt.naive \div MinutesPerDay
        /\ Elapsed >= 0 /\ Elapsed < 7 * 24 * 60
        /\ \A i \in DOMAIN warnings : warnings[i].tpl # DurationTemplate
        /\ \A i \in DOMAIN result.warnings : result.warnings[i].tpl # DurationTemplate

\* An event of one hour, emitted without a warning.
C29_Witness ==
    /\ Emitted
    /\ Elapsed = 60
    /\ result.warnings = <<>>

(***************************************************************************)
(* The prompt handed to extract_slots.                                     *)
(***************************************************************************)
\* C30: whenever extract_slots is about to be called or has been called in
\* a run, the sanitized prompt it is given is not empty.
C30_ExtractedPromptNotEmpty ==
    (pc = "Extracting" \/ HasStage("Extracting")) => gate.sanitized # <<>>

\* A prompt that is not blank and whose sanitized text went to extract_slots.
C30_RequestExtracted ==
    /\ HasStage("Extracting")
    /\ gate.sanitized = PromptLunch

(***************************************************************************)
(* The wait reported by a rejected admission.                              *)
(***************************************************************************)
\* The instant the reported wait after a rejection at instant t ends.
WaitEnd(t, e) == t + ReportedWait(e) * TicksPerSecond

\* C27: when a call is rejected at instant t reporting the wait w, a check of
\* the list it leaves behind (no request admitted in between) at any instant
\* from t + w on, up to a window later, admits.
C27_WaitSufficient ==
    [][(ValidCall /\ gate'.err.kind = "RateLimitExceeded") =>
          \A later \in 0..WindowTicks :
              ~check_rate_limit(request_timestamps',
                                WaitEnd(now, gate'.err) + later).raised]_vars

\* The last call was rejected, the clock has advanced since, and a call at
\* this instant would be admitted.
C27_Witness ==
    /\ gate.called
    /\ gate.err.kind = "RateLimitExceeded"
    /\ Len(request_timestamps) >= RATE_LIMIT_REQUESTS
    /\ now > request_timestamps[Len(request_timestamps)]
    /\ ~check_rate_limit(request_timestamps, now).raised

\* The last call was rejected and a call at this instant would be rejected too.
C27_StillWaiting ==
    /\ gate.called
    /\ gate.err.kind = "RateLimitExceeded"
    /\ now > request_timestamps[Len(request_timestamps)]
    /\ check_rate_limit(request_timestamps, now).raised

(***************************************************************************)
(* _check_rate_limit under concurrent callers.                             *)
(***************************************************************************)
Occurrences(v, stamps) == Cardinality({i \in DOMAIN stamps : stamps[i] = v})

\* More requests were admitted within the window ending now than the limit.
OverAdmitted == Cardinality(AdmittedInWindow(now)) > RATE_LIMIT_REQUESTS

\* The timestamp of a request admitted within the window ending now is not
\* (or not as often as admitted) in the stored list.
AdmittedMissing ==
    \E i \in AdmittedInWindow(now) :
        Occurrences(admitted[i], request_timestamps) < Occurrences(admitted[i], admitted)

\* C26: while the callers take turns, never more than RATE_LIMIT_REQUESTS
\* requests are admitted within one window and no admitted request's
\* timestamp is missing from the stored window; without turns, two calls
\* that both pass the count check before either appends admit more than
\* the limit (the witness).
C26_SerializedSafe ==
    threads.serialized => (~OverAdmitted /\ ~AdmittedMissing)

\* Two interleaved calls: both were admitted on a window holding one slot.
C26_Witness ==
    /\ ~threads.serialized
    /\ OverAdmitted
    /\ \A i \in ThreadIds : threads.run[i].at = "idle" /\ ~threads.run[i].raised

\* Two interleaved calls: the pruned list one call assigned has overwritten
\* the timestamp the other appended.
C26_LostTimestamp ==
    /\ ~threads.serialized
    /\ AdmittedMissing
    /\ ~OverAdmitted
    /\ \A i \in ThreadIds : threads.run[i].at = "idle"

\* Callers taking turns: the second call of two on a window holding one
\* slot was rejected.
C26_SerializedRejected ==
    /\ threads.serialized
    /\ Cardinality(AdmittedInWindow(now)) = RATE_LIMIT_REQUESTS
    /\ \E i \in ThreadIds : threads.run[i].raised

====
